---------------------------- MODULE Spec2Model ----------------------------
(***************************************************************************)
(* Model of the phishing URL detector: the URL normaliser, parser and      *)
(* feature extractor of model/transformers.py, the boundary guards of      *)
(* ui/utils.py and the /predict and /explain handlers of api/api.py.       *)
(*                                                                         *)
(* A Python str is a sequence of one-character strings.  Two characters    *)
(* that a TLA+ string cannot spell are tokens: "ZW" is an invisible        *)
(* character of the class [U+200B-U+200D, U+FEFF, U+00AD], "SUR" is a     *)
(* lone surrogate, which UTF-8 cannot encode, "CYR" is a lower-case        *)
(* Cyrillic letter.  A Python value that may or may not be a str is a      *)
(* record [isstr, s].                                                      *)
(***************************************************************************)
EXTENDS Integers, Sequences, FiniteSets, TLC

VARIABLES
    TRUSTED_DOMAINS,   \* api.py:28-32, the list loaded at import, as a set
    THRESHOLD,         \* api.py:25, in steps of 1/ProbSteps
    VALID_TLDS,        \* utils.py:25, the set load_tlds() returned at import
    bracketCheck,      \* whether the interpreter's urlsplit validates [..] hosts
    op,                \* the function called last ("idle" before any call)
    arg,               \* its argument
    ret,               \* what it returned
    prev,              \* the value returned by the call before it
    raised,            \* whether the last call ended with an exception
    pc,                \* position of the request handler
    endpoint,          \* "predict" or "explain"
    rawUrl,            \* the query parameter url as the client sent it
    url,               \* the handler's local variable url
    proba,             \* the classifier's answer, in steps of 1/ProbSteps
    calls,             \* the functions the handler has called, in order
    status,            \* HTTP status of the response (0: none yet)
    detail,            \* which HTTPException detail / payload was sent
    body               \* the response payload

vars == <<TRUSTED_DOMAINS, THRESHOLD, VALID_TLDS, bracketCheck, op, arg, ret, prev,
          raised, pc, endpoint, rawUrl, url, proba, calls, status, detail, body>>

cfgVars == <<TRUSTED_DOMAINS, THRESHOLD, VALID_TLDS, bracketCheck>>
callVars == <<op, arg, ret, prev, raised>>
reqVars == <<pc, endpoint, rawUrl, url, proba, calls, status, detail, body>>

(***************************************************************************)
(* Bounds of the model.                                                    *)
(***************************************************************************)
MaxRawLen == 4      \* longest raw string of the exhaustive normaliser inputs
MaxHostLen == 4     \* longest host of the exhaustive character-level hosts
MaxLabels == 2      \* most labels in front of a registered name
ProbSteps == 2      \* probabilities and thresholds are k/ProbSteps
MaxBatch == 2       \* most items of a batch given to transform

(***************************************************************************)
(* Characters and strings.                                                 *)
(***************************************************************************)
Digits == {"0", "1", "2", "3", "4", "5", "6", "7", "8", "9"}
LowerSeq == <<"a", "b", "c", "d", "e", "f", "g", "h", "i", "j", "k", "l", "m",
              "n", "o", "p", "q", "r", "s", "t", "u", "v", "w", "x", "y", "z">>
UpperSeq == <<"A", "B", "C", "D", "E", "F", "G", "H", "I", "J", "K", "L", "M",
              "N", "O", "P", "Q", "R", "S", "T", "U", "V", "W", "X", "Y", "Z">>
LowerLetters == {LowerSeq[i] : i \in 1..26}
UpperLetters == {UpperSeq[i] : i \in 1..26}
Letters == LowerLetters \cup UpperLetters
HexDigits == Digits \cup {"a", "b", "c", "d", "e", "f", "A", "B", "C", "D", "E", "F"}
Whitespace == {" "}
Invisible == {"ZW"}
Unencodable == {"SUR"}

PyStr(s) == [isstr |-> TRUE, s |-> s]
PyNone == [isstr |-> FALSE, s |-> <<>>]

\* All sequences over alphabet A of length at most n.
SeqsUpTo(A, n) == UNION {[1..k -> A] : k \in 0..n}

\* s[i-1:j] of Python for 1 <= i: the slice is cut at the end of s.
Slice(s, i, j) == IF j > Len(s) THEN SubSeq(s, i, Len(s)) ELSE SubSeq(s, i, j)

Contains(s, c) == \E i \in 1..Len(s) : s[i] = c
Count(s, c) == Cardinality({i \in 1..Len(s) : s[i] = c})
StartsWith(s, p) == Len(p) <= Len(s) /\ SubSeq(s, 1, Len(p)) = p
EndsWith(s, p) == Len(p) <= Len(s) /\ SubSeq(s, Len(s) - Len(p) + 1, Len(s)) = p
Drop(s, n) == SubSeq(s, n + 1, Len(s))

\* str.find(p): the first index (from 1) at which p occurs in s, 0 when none.
Find(s, p) ==
    LET hits == {i \in 1..(Len(s) - Len(p) + 1) : SubSeq(s, i, i + Len(p) - 1) = p}
    IN IF hits = {} THEN 0 ELSE CHOOSE i \in hits : \A j \in hits : i <= j

\* str.strip(chars): drop leading and trailing characters that are in cs.
StripChars(s, cs) ==
    LET keep == {i \in 1..Len(s) : s[i] \notin cs}
    IN IF keep = {} THEN <<>>
       ELSE LET lo == CHOOSE i \in keep : \A j \in keep : i <= j
                hi == CHOOSE i \in keep : \A j \in keep : j <= i
            IN SubSeq(s, lo, hi)

\* str.lower() on one character
ToLowerChar(c) ==
    IF c \in UpperLetters THEN LowerSeq[CHOOSE i \in 1..26 : UpperSeq[i] = c] ELSE c
Lower(s) == [i \in 1..Len(s) |-> ToLowerChar(s[i])]

SchemeSep == <<":", "/", "/">>
HTTP == <<"h", "t", "t", "p">>
HTTPS == <<"h", "t", "t", "p", "s">>
FTP == <<"f", "t", "p">>

(***************************************************************************)
(* model/transformers.py: normalize_url.                                   *)
(***************************************************************************)
\* Letters outside the Latin alphabet.
NonLatinLetters == {"CYR"}

\* \w of a str pattern: letters of any alphabet, digits and the underscore.
IsWordChar(c) == c \in Letters \cup NonLatinLetters \cup Digits \cup {"_"}

\* A scheme check that never matches: every string gets "http://" prepended.
HasSchemePrefixNever(s) == FALSE

\* re.match(r'^\w+://', u)
HasSchemePrefix(s) ==
    \E k \in 1..Len(s) :
        /\ \A i \in 1..k : IsWordChar(s[i])
        /\ Slice(s, k + 1, k + 3) = SchemeSep

normalize_url(u) ==
    IF ~u.isstr THEN <<>>
    ELSE LET a == SelectSeq(u.s, LAMBDA c : c \notin Invisible)
             b == SelectSeq(a, LAMBDA c : c \notin Unencodable)
             c == StripChars(b, Whitespace)
         IN IF c = <<>> THEN c
            ELSE IF ~HasSchemePrefix(c) THEN HTTP \o SchemeSep \o c
            ELSE c

(***************************************************************************)
(* ipaddress.ip_address on a str, as transformers.py:65, transformers.py   *)
(* :147 and utils.py:42 call it: the value is an address when it parses as *)
(* IPv4 or as IPv6, and ValueError is raised otherwise.                    *)
(***************************************************************************)
RECURSIVE SplitOn(_, _)
\* str.split(c) for a one-character separator c.
SplitOn(s, c) ==
    LET i == Find(s, <<c>>)
    IN IF i = 0 THEN <<s>> ELSE <<SubSeq(s, 1, i - 1)>> \o SplitOn(Drop(s, i), c)

DigitVal(c) ==
    CASE c = "0" -> 0 [] c = "1" -> 1 [] c = "2" -> 2 [] c = "3" -> 3 [] c = "4" -> 4
      [] c = "5" -> 5 [] c = "6" -> 6 [] c = "7" -> 7 [] c = "8" -> 8 [] c = "9" -> 9

RECURSIVE DecimalVal(_)
DecimalVal(s) ==
    IF s = <<>> THEN 0
    ELSE 10 * DecimalVal(SubSeq(s, 1, Len(s) - 1)) + DigitVal(s[Len(s)])

\* IPv4Address._parse_octet
IsOctet(o) ==
    /\ o # <<>>
    /\ \A i \in 1..Len(o) : o[i] \in Digits
    /\ Len(o) <= 3
    /\ (Len(o) > 1 => o[1] # "0")
    /\ DecimalVal(o) <= 255

\* IPv4Address(s) does not raise.
IsIPv4(s) ==
    /\ ~Contains(s, "/")
    /\ LET octets == SplitOn(s, ".")
       IN Len(octets) = 4 /\ \A i \in 1..4 : IsOctet(octets[i])

\* IPv6Address._parse_hextet
IsHextet(h) == Len(h) <= 4 /\ \A i \in 1..Len(h) : h[i] \in HexDigits

\* The hextets around the "::" at index k of parts: hi leading ones, lo
\* trailing ones, none on a side whose outermost part is empty.
IsIPv6Skipped(parts, n, k, hi, lo) ==
    /\ (parts[1] = <<>> => hi = 0)
    /\ (parts[n] = <<>> => lo = 0)
    /\ 8 - (hi + lo) >= 1
    /\ \A i \in 1..hi : IsHextet(parts[i])
    /\ \A i \in (n - lo + 1)..n : IsHextet(parts[i])

\* The parts of the body, an embedded IPv4 address counted as two hextets.
IsIPv6Parts(parts, n, skips) ==
    /\ n <= 9
    /\ Cardinality(skips) <= 1
    /\ IF skips # {}
       THEN \E k \in skips :
               IsIPv6Skipped(parts, n, k,
                             IF parts[1] = <<>> THEN k - 2 ELSE k - 1,
                             IF parts[n] = <<>> THEN n - k - 1 ELSE n - k)
       ELSE /\ n = 8
            /\ parts[1] # <<>> /\ parts[n] # <<>>
            /\ \A i \in 1..n : IsHextet(parts[i])

\* IPv6Address._ip_int_from_string does not raise.
IsIPv6Body(s) ==
    /\ s # <<>>
    /\ \E raw \in {SplitOn(s, ":")} :
          /\ Len(raw) >= 3
          /\ \E embedded \in {Contains(raw[Len(raw)], ".")} :
                /\ embedded => IsIPv4(raw[Len(raw)])
                /\ \E parts \in {IF embedded
                                 THEN SubSeq(raw, 1, Len(raw) - 1) \o <<<<"0">>, <<"0">>>>
                                 ELSE raw} :
                      IsIPv6Parts(parts, Len(parts),
                                  {i \in 2..(Len(parts) - 1) : parts[i] = <<>>})

\* IPv6Address(s) does not raise: no "/", an optional %scope, then the body.
IsIPv6(s) ==
    /\ ~Contains(s, "/")
    /\ \E i \in {Find(s, <<"%">>)} :
          /\ i # 0 => (i < Len(s) /\ ~Contains(Drop(s, i), "%"))
          /\ IsIPv6Body(IF i = 0 THEN s ELSE SubSeq(s, 1, i - 1))

\* ipaddress.ip_address(s) returns (does not raise ValueError).
IsIPAddress(s) == IsIPv4(s) \/ IsIPv6(s)

Brackets == {"[", "]"}

(***************************************************************************)
(* urllib.parse.urlsplit and urlparse, as transformers.py:72, utils.py:51, *)
(* utils.py:78 and api.py:52 call them.  A call gives [exc, val]: exc is   *)
(* TRUE when ValueError is raised.  Tabs and line breaks, which urlsplit   *)
(* deletes, are outside the alphabets of this model; the one non-ASCII     *)
(* character, "CYR", is its own NFKC form, so _checknetloc lets it pass.   *)
(***************************************************************************)
EmptyResult ==
    [scheme |-> <<>>, netloc |-> <<>>, path |-> <<>>,
     params |-> <<>>, query |-> <<>>, fragment |-> <<>>]

SchemeChars == Letters \cup Digits \cup {"+", "-", "."}

UsesParams ==
    {<<>>, <<"f", "t", "p">>, <<"h", "d", "l">>,
     <<"p", "r", "o", "s", "p", "e", "r", "o">>, <<"h", "t", "t", "p">>,
     <<"i", "m", "a", "p">>, <<"h", "t", "t", "p", "s">>,
     <<"s", "h", "t", "t", "p">>, <<"r", "t", "s", "p">>,
     <<"r", "t", "s", "p", "u">>, <<"s", "i", "p">>, <<"s", "i", "p", "s">>,
     <<"m", "m", "s">>, <<"s", "f", "t", "p">>, <<"t", "e", "l">>}

\* The first index >= from of a character of cs in s, Len(s) + 1 when none.
FirstOf(s, cs, from) ==
    LET hits == {i \in from..Len(s) : s[i] \in cs}
    IN IF hits = {} THEN Len(s) + 1 ELSE CHOOSE i \in hits : \A j \in hits : i <= j

\* str.lstrip(chars)
LStrip(s, cs) == Drop(s, FirstOf(s, {s[i] : i \in 1..Len(s)} \ cs, 1) - 1)

\* _check_bracketed_host does not raise: an IPvFuture literal or an IPv6 address.
BracketedHostOk(h) ==
    IF StartsWith(h, <<"v">>)
    THEN \E k \in 2..(Len(h) - 2) :
            /\ \A i \in 2..k : h[i] \in HexDigits
            /\ h[k + 1] = "."
    ELSE IsIPAddress(h) /\ ~IsIPv4(h)

\* The netloc checks of urlsplit raise ValueError.
NetlocRaises(netloc) ==
    \E open \in {Contains(netloc, "[")}, close \in {Contains(netloc, "]")} :
        \/ open /\ ~close
        \/ close /\ ~open
        \/ /\ bracketCheck /\ open /\ close
           /\ \E afterOpen \in {Drop(netloc, Find(netloc, <<"[">>))} :
                 ~BracketedHostOk(SubSeq(afterOpen, 1, FirstOf(afterOpen, {"]"}, 1) - 1))

\* urlsplit after the fragment: the query is what follows the first "?" (q).
urlsplit_query(scheme, netloc, u3, fragment, q) ==
    [exc |-> FALSE,
     val |-> [scheme |-> scheme, netloc |-> netloc,
              path |-> IF q > 0 THEN SubSeq(u3, 1, q - 1) ELSE u3,
              params |-> <<>>,
              query |-> IF q > 0 THEN Drop(u3, q) ELSE <<>>,
              fragment |-> fragment]]

\* urlsplit after the netloc: the fragment is what follows the first "#" (h).
urlsplit_fragment(scheme, netloc, u2, h) ==
    IF h > 0
    THEN urlsplit_query(scheme, netloc, SubSeq(u2, 1, h - 1), Drop(u2, h),
                        Find(SubSeq(u2, 1, h - 1), <<"?">>))
    ELSE urlsplit_query(scheme, netloc, u2, <<>>, Find(u2, <<"?">>))

\* urlsplit after the scheme: a netloc follows "//" and ends at delim.
urlsplit_netloc(scheme, u1, delim) ==
    IF Slice(u1, 1, 2) = <<"/", "/">>
    THEN IF NetlocRaises(SubSeq(u1, 3, delim - 1))
         THEN [exc |-> TRUE, val |-> EmptyResult]
         ELSE urlsplit_fragment(scheme, SubSeq(u1, 3, delim - 1), Drop(u1, delim - 1),
                                Find(Drop(u1, delim - 1), <<"#">>))
    ELSE urlsplit_fragment(scheme, <<>>, u1, Find(u1, <<"#">>))

\* urlsplit of a url without leading whitespace, i the index of its first ":".
urlsplit_scheme(u0, i) ==
    IF /\ i > 1
       /\ u0[1] \in Letters
       /\ \A k \in 1..(i - 1) : u0[k] \in SchemeChars
    THEN urlsplit_netloc(Lower(SubSeq(u0, 1, i - 1)), Drop(u0, i),
                         FirstOf(Drop(u0, i), {"/", "?", "#"}, 3))
    ELSE urlsplit_netloc(<<>>, u0, FirstOf(u0, {"/", "?", "#"}, 3))

urlsplit(u) == urlsplit_scheme(LStrip(u, Whitespace), Find(LStrip(u, Whitespace), <<":">>))

\* str.rfind(c): the last index of c in s, 0 when none.
RFindChar(s, c) ==
    LET hits == {i \in 1..Len(s) : s[i] = c}
    IN IF hits = {} THEN 0 ELSE CHOOSE i \in hits : \A j \in hits : j <= i

\* _splitparams: the index of the ";" that starts the params, 0 when none.
ParamsAt(path) ==
    LET from == IF Contains(path, "/") THEN RFindChar(path, "/") ELSE 1
        i == FirstOf(path, {";"}, from)
    IN IF i > Len(path) THEN 0 ELSE i

\* _splitparams on the result r of urlsplit, i the index ParamsAt gives.
urlparse_params(r, i) ==
    IF r.exc \/ i = 0 THEN r
    ELSE [exc |-> FALSE,
          val |-> [r.val EXCEPT !.path = SubSeq(r.val.path, 1, i - 1),
                                !.params = Drop(r.val.path, i)]]

urlparse_split(r) ==
    urlparse_params(r, IF r.val.scheme \in UsesParams THEN ParamsAt(r.val.path) ELSE 0)

urlparse(u) == urlparse_split(urlsplit(u))

(***************************************************************************)
(* model/transformers.py: parse_url.                                       *)
(***************************************************************************)
\* The sentinel of transformers.py:74.
Sentinel == EmptyResult

\* url.split("://", 1)[1].split("/")[0] for a url that contains "://".
CandidateHost(u) == SplitOn(Drop(u, Find(u, SchemeSep) + 2), "/")[1]

\* transformers.py:72, the url handed to urlparse: [exc, val].
parse_url_urlparse(r) == [exc |-> IF r.exc THEN "ValueError" ELSE "none", val |-> r.val]

\* transformers.py:63-72 for a url that contains "://" at i, host its
\* candidate host.
parse_url_host(u, i, host) ==
    IF IsIPAddress(StripChars(host, Brackets))
    THEN [exc |-> "none",
          val |-> [Sentinel EXCEPT
                     !.scheme = SubSeq(u, 1, i - 1),
                     !.netloc = IF Contains(host, ":") /\ ~StartsWith(host, <<"[">>)
                                THEN <<"[">> \o host \o <<"]">>
                                ELSE host]]
    ELSE parse_url_urlparse(urlparse(u))

\* transformers.py:63 on the normalized url u: the split at "://" (i).
parse_url_normalized(u, i) ==
    IF i = 0 THEN [exc |-> "IndexError", val |-> Sentinel]
    ELSE parse_url_host(u, i, CandidateHost(u))

\* The body of the outer try, transformers.py:62-72: [exc, val], where exc
\* names the exception that leaves the body ("none" when it returns).
parse_url_body(x) == parse_url_normalized(normalize_url(x), Find(normalize_url(x), SchemeSep))

\* A handler that lets IndexError through.
CaughtByOuterValueErrorOnly(e) == e = "ValueError"

\* `except Exception`, transformers.py:73: every exception of the body.
CaughtByOuter(e) == e \in {"IndexError", "ValueError"}

\* The outer try of parse_url around the outcome b of its body.
parse_url_try(b) ==
    IF b.exc = "none" THEN [raised |-> FALSE, val |-> b.val]
    ELSE IF CaughtByOuter(b.exc) THEN [raised |-> FALSE, val |-> Sentinel]
    ELSE [raised |-> TRUE, val |-> Sentinel]

\* parse_url: [raised, val].
parse_url(x) == parse_url_try(parse_url_body(x))

(***************************************************************************)
(* api/api.py: the trusted-domain test and postprocess_prediction.         *)
(***************************************************************************)
WwwDot == <<"w", "w", "w", ".">>

\* domain = parsed.netloc.lower(); a leading "www." is cut (api.py:53-55,
\* and again api.py:153-155).
DomainOf(netloc) ==
    LET d == Lower(netloc)
    IN IF StartsWith(d, WwwDot) THEN Drop(d, 4) ELSE d

\* A suffix test without the separating dot.
MatchesTrustedAnySuffix(domain, td) == domain = td \/ EndsWith(domain, td)

\* domain == td or domain.endswith("." + td)
MatchesTrusted(domain, td) == domain = td \/ EndsWith(domain, <<".">> \o td)

\* any(... for td in TRUSTED_DOMAINS), api.py:57 and api.py:157
IsTrusted(domain) == \E td \in TRUSTED_DOMAINS : MatchesTrusted(domain, td)

\* A comparison that lets a probability equal to the threshold pass as safe.
VerdictStrict(p, threshold) == IF p > threshold THEN 1 ELSE 0

\* pred = 1 if proba >= threshold else 0
Verdict(p, threshold) == IF p >= threshold THEN 1 ELSE 0

ClassName(pred) == IF pred = 1 THEN "phishing" ELSE "safe"

\* api.py:59-64 without the trusted override, on the outcome of urlparse.
postprocess_parsed_no_override(parsed, p, threshold) ==
    IF parsed.exc THEN [raised |-> TRUE, val |-> <<>>]
    ELSE [raised |-> FALSE,
          val |-> [pred |-> Verdict(p, threshold),
                   class_name |-> ClassName(Verdict(p, threshold)),
                   proba |-> p, threshold |-> threshold,
                   trusted |-> IsTrusted(DomainOf(parsed.val.netloc))]]

\* A postprocess_prediction without the trusted override.
postprocess_prediction_no_override(u, p, threshold) ==
    postprocess_parsed_no_override(urlparse(u), p, threshold)

\* api.py:53-64 on the outcome parsed of urlparse(url).
postprocess_parsed(parsed, p, threshold) ==
    IF parsed.exc THEN [raised |-> TRUE, val |-> <<>>]
    ELSE IF IsTrusted(DomainOf(parsed.val.netloc))
    THEN [raised |-> FALSE,
          val |-> [pred |-> 0, class_name |-> "safe",
                   proba |-> p, threshold |-> threshold, trusted |-> TRUE]]
    ELSE [raised |-> FALSE,
          val |-> [pred |-> Verdict(p, threshold),
                   class_name |-> ClassName(Verdict(p, threshold)),
                   proba |-> p, threshold |-> threshold, trusted |-> FALSE]]

\* postprocess_prediction(url, proba, threshold): [raised, val]; the
\* ValueError of urlparse is not caught here.
postprocess_prediction(u, p, threshold) == postprocess_parsed(urlparse(u), p, threshold)

(***************************************************************************)
(* ui/utils.py: the boundary guards.                                       *)
(***************************************************************************)
\* The fallback of load_tlds, utils.py:23.
FallbackTlds ==
    {<<"c", "o", "m">>, <<"o", "r", "g">>, <<"n", "e", "t">>, <<"r", "u">>,
     <<"x", "y", "z">>, <<"t", "k">>, <<"i", "o">>, <<"d", "e", "v">>,
     <<"i", "n", "f", "o">>}

\* A set as the IANA list gives it, utils.py:18: lower-cased names, among
\* them the fallback's and "bank".
IanaTlds == FallbackTlds \cup {<<"b", "a", "n", "k">>}

\* [A-Za-z0-9\.\-\[\]:]
NetlocChars == Letters \cup Digits \cup {".", "-", "[", "]", ":"}

\* utils.py:51-66 on the outcome result of urlparse.
is_valid_parsed(result) ==
    /\ ~result.exc
    /\ result.val.scheme \in {HTTP, HTTPS}
    /\ result.val.netloc # <<>>
    /\ ~Contains(result.val.netloc, " ")
    /\ \A i \in 1..Len(result.val.netloc) : result.val.netloc[i] \in NetlocChars

\* utils.py:36-66 on the stripped url.
is_valid_stripped(u) ==
    IF u = <<>> THEN FALSE
    ELSE IF IsIPAddress(StripChars(u, Brackets)) THEN TRUE
    ELSE is_valid_parsed(urlparse(IF HasSchemePrefix(u) THEN u ELSE HTTP \o SchemeSep \o u))

\* is_valid_url_or_ip(u) for a str u.
is_valid_url_or_ip(u0) == is_valid_stripped(StripChars(u0, Whitespace))

\* `except Exception`, utils.py:65: every exception of the try.
CaughtByValidator(e) == e \in {"ValueError"}

\* utils.py:49-66, the try around urlparse and the checks of its result:
\* [raised, val].
is_valid_try(result) ==
    IF ~result.exc THEN [raised |-> FALSE, val |-> is_valid_parsed(result)]
    ELSE IF CaughtByValidator("ValueError") THEN [raised |-> FALSE, val |-> FALSE]
    ELSE [raised |-> TRUE, val |-> FALSE]

\* utils.py:40-66 on the stripped, non-empty url: the ValueError of
\* ip_address is caught by utils.py:44.
is_valid_checked(u) ==
    IF IsIPAddress(StripChars(u, Brackets)) THEN [raised |-> FALSE, val |-> TRUE]
    ELSE is_valid_try(urlparse(IF HasSchemePrefix(u) THEN u ELSE HTTP \o SchemeSep \o u))

\* is_valid_url_or_ip(x) for None or a str x: [raised, val].
is_valid_call(x) ==
    IF ~x.isstr \/ StripChars(x.s, Whitespace) = <<>>
    THEN [raised |-> FALSE, val |-> FALSE]
    ELSE is_valid_checked(StripChars(x.s, Whitespace))

\* A plausibility test that asks for a dot only.
is_plausible_domain_dot_only(domain) == domain # <<>> /\ Contains(domain, ".")

\* utils.py:80-86 on the lower-cased netloc.
is_plausible_domain(domain) ==
    /\ domain # <<>>
    /\ Contains(domain, ".")
    /\ \E labels \in {SplitOn(domain, ".")} : labels[Len(labels)] \in VALID_TLDS
    /\ \E i \in 1..Len(domain) : domain[i] \in Letters

\* utils.py:78-88 on the outcome parsed of urlparse.
is_plausible_parsed(parsed) == ~parsed.exc /\ is_plausible_domain(Lower(parsed.val.netloc))

\* is_plausible_url(url)
is_plausible_url(u) == is_plausible_parsed(urlparse(u))

(***************************************************************************)
(* model/transformers.py: shannon_entropy and URLFeatureExtractor.         *)
(***************************************************************************)
\* 1000 * log2(k), rounded, for k = 1..40.
Log2Milli ==
    <<0, 1000, 1585, 2000, 2322, 2585, 2807, 3000, 3170, 3322, 3459,
       3585, 3700, 3807, 3907, 4000, 4087, 4170, 4248, 4322, 4392, 4459,
       4524, 4585, 4644, 4700, 4755, 4807, 4858, 4907, 4954, 5000, 5044,
       5087, 5129, 5170, 5209, 5248, 5285, 5322>>

RECURSIVE SumOver(_, _)
\* The sum of f[x] over the finite set S.
SumOver(f, S) ==
    IF S = {} THEN 0
    ELSE LET x == CHOOSE y \in S : TRUE IN f[x] + SumOver(f, S \ {x})

\* shannon_entropy(s) in thousandths of a bit, in fixed point:
\* -sum(p * log2(p)) with p = s.count(c) / len(s) is
\* log2(n) - sum(count * log2(count)) / n.
shannon_entropy(s) ==
    IF s = <<>> THEN 0
    ELSE LET n == Len(s)
             chars == {s[i] : i \in 1..n}
             weighted == [c \in chars |-> Count(s, c) * Log2Milli[Count(s, c)]]
         IN (n * Log2Milli[n] - SumOver(weighted, chars)) \div n

\* self.suspicious_keywords, transformers.py:86-87
suspicious_keywords ==
    {<<"l", "o", "g", "i", "n">>,
     <<"s", "e", "c", "u", "r", "e">>,
     <<"v", "e", "r", "i", "f", "y">>,
     <<"u", "p", "d", "a", "t", "e">>,
     <<"b", "a", "n", "k">>,
     <<"a", "c", "c", "o", "u", "n", "t">>,
     <<"f", "r", "e", "e">>,
     <<"b", "o", "n", "u", "s">>,
     <<"c", "l", "i", "c", "k">>,
     <<"w", "i", "n">>}

\* the suffixes of transformers.py:134
SuspiciousTldSuffixes ==
    {<<".", "x", "y", "z">>, <<".", "t", "o", "p">>, <<".", "g", "q">>, <<".", "t", "k">>, <<".", "m", "l">>, <<".", "i", "c", "u">>, <<".", "c", "n">>}

\* self.feature_names_, transformers.py:89-94
feature_names_ ==
    <<"url_length",
      "num_digits",
      "num_special_chars",
      "num_subdomains",
      "has_ip",
      "num_slashes",
      "domain_length",
      "has_suspicious_keyword",
      "has_suspicious_tld",
      "domain_entropy",
      "num_query_params",
      "query_length",
      "has_https",
      "has_at_symbol">>

\* The keys of the dict f in the order the loop inserts them,
\* transformers.py:120-150: has_ip comes last.
DictKeyOrder ==
    <<"url_length",
      "num_digits",
      "num_special_chars",
      "num_subdomains",
      "num_slashes",
      "domain_length",
      "has_suspicious_keyword",
      "has_suspicious_tld",
      "domain_entropy",
      "num_query_params",
      "query_length",
      "has_https",
      "has_at_symbol",
      "has_ip">>

SpecialChars == {"@", "?", "=", "&", "%"}
CountIn(s, cs) == Cardinality({i \in 1..Len(s) : s[i] \in cs})
BoolInt(b) == IF b THEN 1 ELSE 0
Max(a, b) == IF a >= b THEN a ELSE b

\* The dict f of one item from the parts parse_url gave, transformers.py
\* :120-150.
FeatureDictParts(u, scheme, domain, path, query) ==
    [url_length |-> Len(u),
     num_digits |-> CountIn(u, Digits),
     num_special_chars |-> CountIn(u, SpecialChars),
     num_subdomains |-> Max(Count(domain, ".") - 1, 0),
     num_slashes |-> Count(u, "/"),
     domain_length |-> Len(domain),
     has_suspicious_keyword |->
         BoolInt(\E kw \in suspicious_keywords : Find(domain \o path, kw) > 0),
     has_suspicious_tld |->
         BoolInt(\E sfx \in SuspiciousTldSuffixes : EndsWith(domain, sfx)),
     domain_entropy |-> shannon_entropy(domain),
     num_query_params |-> Count(query, "="),
     query_length |-> Len(query),
     has_https |-> BoolInt(scheme = HTTPS),
     has_at_symbol |-> BoolInt(Contains(u, "@")),
     has_ip |-> BoolInt(IsIPAddress(StripChars(domain, Brackets)))]

\* transformers.py:115-118: domain and path are lower-cased.
FeatureDictParsed(u, parsed) ==
    FeatureDictParts(u, parsed.scheme, Lower(parsed.netloc), Lower(parsed.path),
                     parsed.query)

\* The dict f of one item, transformers.py:114-150, for a str item.
FeatureDict(u) == FeatureDictParsed(u, parse_url(PyStr(u)).val)

\* The loop body on one item: len(url) raises TypeError for an item that is
\* no str, after parse_url returned its sentinel for it.
ItemFeatures(item) ==
    IF item.isstr THEN [exc |-> FALSE, keys |-> DictKeyOrder, f |-> FeatureDict(item.s)]
    ELSE [exc |-> TRUE, keys |-> <<>>, f |-> <<>>]

\* pd.DataFrame(features) without columns=: the columns are the keys of the
\* dicts in insertion order.
DataFrameInDictOrder(features, columns) ==
    LET cols == IF features = <<>> THEN <<>> ELSE features[1].keys
    IN [columns |-> cols,
        rows |-> [i \in 1..Len(features) |->
                    [j \in 1..Len(cols) |-> features[i].f[cols[j]]]]]

\* pd.DataFrame(features, columns=self.feature_names_), transformers.py:154
DataFrame(features, columns) ==
    [columns |-> columns,
     rows |-> [i \in 1..Len(features) |->
                 [j \in 1..Len(columns) |-> features[i].f[columns[j]]]]]

\* transformers.py:154 once the loop is over: an exception of the loop
\* body leaves transform before any frame is built.
transform_features(features) ==
    IF \E i \in 1..Len(features) : features[i].exc
    THEN [raised |-> TRUE, val |-> <<>>]
    ELSE [raised |-> FALSE, val |-> DataFrame(features, feature_names_)]

\* URLFeatureExtractor.transform(X): [raised, val].  X is a list or a frame
\* with a url column; either way the loop runs over its items.
transform(X) == transform_features([i \in 1..Len(X.items) |-> ItemFeatures(X.items[i])])

(***************************************************************************)
(* model/transformers.py: DomainTokenizer.                                 *)
(***************************************************************************)
\* re.sub(r'[\.-]', ' ', domain)
DotsAndHyphensToSpaces(domain) ==
    [i \in 1..Len(domain) |-> IF domain[i] \in {".", "-"} THEN " " ELSE domain[i]]

\* transformers.py:193-194 on the outcome of urlparse: its ValueError is
\* not caught in the loop.
tokenize_parsed(parsed) ==
    IF parsed.exc THEN [exc |-> TRUE, token |-> <<>>]
    ELSE [exc |-> FALSE, token |-> DotsAndHyphensToSpaces(Lower(parsed.val.netloc))]

\* The loop body of DomainTokenizer.transform on one item, transformers.py
\* :192-194.
tokenize_item(item) == tokenize_parsed(urlparse(normalize_url(item)))

\* np.array(tokens) once the loop is over, transformers.py:196.
tokenize_tokens(tokens) ==
    IF \E i \in 1..Len(tokens) : tokens[i].exc
    THEN [raised |-> TRUE, val |-> <<>>]
    ELSE [raised |-> FALSE, val |-> [i \in 1..Len(tokens) |-> tokens[i].token]]

\* DomainTokenizer.transform(X): [raised, val].
tokenize(X) == tokenize_tokens([i \in 1..Len(X.items) |-> tokenize_item(X.items[i])])

(***************************************************************************)
(* api/api.py: the heuristics of /explain, api.py:151-212.  The entropy is *)
(* in thousandths of a bit, as shannon_entropy gives it here.              *)
(***************************************************************************)
\* suspicious_words, api.py:159
suspicious_words ==
    <<<<"l", "o", "g", "i", "n">>, <<"s", "e", "c", "u", "r", "e">>,
      <<"u", "p", "d", "a", "t", "e">>, <<"v", "e", "r", "i", "f", "y">>,
      <<"a", "c", "c", "o", "u", "n", "t">>>>

\* suspicious_path_words, api.py:160
suspicious_path_words ==
    <<<<"c", "l", "a", "i", "m">>, <<"b", "o", "n", "u", "s">>,
      <<"f", "r", "e", "e">>, <<"g", "i", "f", "t">>, <<"w", "i", "n">>,
      <<"p", "r", "i", "z", "e">>>>

\* suspicious_tlds, api.py:161
suspicious_tlds ==
    {<<"t", "k">>, <<"x", "y", "z">>, <<"t", "o", "p">>, <<"g", "q">>, <<"c", "f">>}

\* The characters counted by num_special, api.py:164
ExplainSpecialChars == {"@", "-", "_", "=", "?", "%"}

\* [w for w in words if w in text]
FoundIn(words, text) ==
    LET Occurs(w) == Find(text, w) > 0
    IN SelectSeq(words, Occurs)

\* str.isdigit(), for the characters of this model: non-empty, all digits.
IsDigitStr(s) == s # <<>> /\ \A i \in 1..Len(s) : s[i] \in Digits

\* domain.replace(".", "")
RemoveDots(domain) ==
    LET NotDot(c) == c # "."
    IN SelectSeq(domain, NotDot)

\* The count the table of the heuristics gives: the dots of the host less two.
num_subdomains_dots_less_two(domain) ==
    IF Contains(domain, ".") THEN Count(domain, ".") - 2 ELSE 0

\* len(domain.split(".")) - 2 if "." in domain else 0, api.py:168
num_subdomains_of(domain) ==
    IF Contains(domain, ".") THEN Len(SplitOn(domain, ".")) - 2 ELSE 0

\* domain.split(".")[-1] if "." in domain else "", api.py:171
tld_of(domain) ==
    IF Contains(domain, ".")
    THEN SplitOn(domain, ".")[Len(SplitOn(domain, "."))]
    ELSE <<>>

\* colorize(feature, value), api.py:174-194
colorize(feature, value) ==
    CASE feature = "url_length" ->
            IF value < 30 THEN "green" ELSE IF value < 60 THEN "yellow" ELSE "red"
      [] feature = "num_dots" -> IF value <= 2 THEN "green" ELSE "red"
      [] feature = "num_special_chars" -> IF value <= 2 THEN "green" ELSE "red"
      [] feature = "entropy" -> IF value < 4000 THEN "green" ELSE "red"
      [] feature = "is_ip_address" -> IF value THEN "red" ELSE "green"
      [] feature = "num_subdomains" -> IF value <= 2 THEN "green" ELSE "red"
      [] feature = "suspicious_keywords" -> IF value # <<>> THEN "red" ELSE "green"
      [] feature = "suspicious_path_keywords" -> IF value # <<>> THEN "red" ELSE "green"
      [] feature = "is_suspicious_tld" -> IF value THEN "red" ELSE "green"
      [] OTHER -> "yellow"

\* One entry of heuristics that goes through colorize.
Row(feature, value) == [feature |-> feature, value |-> value, color |-> colorize(feature, value)]

\* One entry of heuristics with its colour given in place, api.py:204, 206.
RowColored(feature, value, good) ==
    [feature |-> feature, value |-> value, color |-> IF good THEN "green" ELSE "red"]


\* heuristics without the row of the top-level domain.
explain_rows_without_tld(url_length, num_dots, num_special, entropy_val, is_ip, num_subdomains, found_keywords, found_path_keywords, tld, is_trusted) ==
    <<Row("url_length", url_length),
      Row("num_dots", num_dots),
      Row("num_special_chars", num_special),
      Row("entropy", entropy_val),
      Row("is_ip_address", is_ip),
      Row("num_subdomains", num_subdomains),
      Row("suspicious_keywords", found_keywords),
      Row("suspicious_path_keywords", found_path_keywords),
      Row("is_suspicious_tld", tld \in suspicious_tlds),
      RowColored("is_trusted_domain", is_trusted, is_trusted)>>

\* heuristics, api.py:196-206
explain_rows(url_length, num_dots, num_special, entropy_val, is_ip, num_subdomains, found_keywords, found_path_keywords, tld, is_trusted) ==
    <<Row("url_length", url_length),
      Row("num_dots", num_dots),
      Row("num_special_chars", num_special),
      Row("entropy", entropy_val),
      Row("is_ip_address", is_ip),
      Row("num_subdomains", num_subdomains),
      Row("suspicious_keywords", found_keywords),
      Row("suspicious_path_keywords", found_path_keywords),
      RowColored("tld", tld, tld \notin suspicious_tlds),
      Row("is_suspicious_tld", tld \in suspicious_tlds),
      RowColored("is_trusted_domain", is_trusted, is_trusted)>>

\* result, api.py:162-212, from the domain, the path and the trusted flag.
explain_result(u, domain, path, is_trusted) ==
    [url |-> u,
     explanations |->
         explain_rows(Len(u), Count(u, "."), CountIn(u, ExplainSpecialChars),
                      shannon_entropy(u), IsDigitStr(RemoveDots(domain)),
                      num_subdomains_of(domain),
                      FoundIn(suspicious_words, Lower(u)),
                      FoundIn(suspicious_path_words, path),
                      tld_of(domain), is_trusted),
     trusted |-> is_trusted]

\* A trusted test of /explain that takes any suffix for a subdomain.
explain_parsed_any_suffix(u, domain, path) ==
    explain_result(u, domain, path, \E td \in TRUSTED_DOMAINS : EndsWith(domain, td))

\* api.py:157: is_trusted, the same test postprocess_prediction makes.
explain_parsed(u, domain, path) == explain_result(u, domain, path, IsTrusted(domain))

(***************************************************************************)
(* Inputs.                                                                 *)
(***************************************************************************)
RawAlphabet == {"a", ":", "/", " ", "ZW", "SUR"}
RawInputs == {PyStr(s) : s \in SeqsUpTo(RawAlphabet, MaxRawLen)}
                \cup {PyStr(<<"a", ":", "/", "/", "a">>),
                      PyStr(<<" ", "a", "ZW", " ">>), PyNone}

\* Hosts spelled character by character, and IP literals with and without
\* brackets.
HostAlphabet == {"1", ":", ".", "[", "]", "g"}
CharHosts == SeqsUpTo(HostAlphabet, MaxHostLen)
IPv4Literals == {<<"1", ".", "1", ".", "1", ".", "1">>,
                 <<"1", "9", "2", ".", "1", "6", "8", ".", "0", ".", "1">>}
IPv6Literals == {<<":", ":", "1">>,
                 <<"2", "0", "0", "1", ":", "d", "b", "8", ":", ":", "1">>}
IPLiterals ==
    UNION {{a, <<"[">> \o a \o <<"]">>, <<"[">> \o a, a \o <<"]">>} :
             a \in IPv4Literals \cup IPv6Literals}

Prefixes == {<<>>, HTTPS \o SchemeSep}
Tails == {<<>>, <<"/", "p">>}
ParseInputs ==
    {PyNone} \cup {PyStr(pre \o h) : pre \in Prefixes, h \in CharHosts}
             \cup {PyStr(pre \o h \o tl) : pre \in Prefixes, h \in IPLiterals, tl \in Tails}

\* What is_valid_url_or_ip is asked about: the inputs of parse_url, other
\* schemes, blanks, "$" and a Cyrillic letter in the netloc.
ValidInputs ==
    ParseInputs \cup {PyStr(s) : s \in
        {<<" ">>, <<" ", "g", ".", "i", "o", " ">>, <<"g", " ", "g">>,
         <<"g", "$", ".", "i", "o">>, HTTP \o SchemeSep, FTP \o SchemeSep \o <<"g", ".", "i", "o">>,
         HTTP \o SchemeSep \o <<"CYR", ".", "i", "o">>, <<"CYR">> \o SchemeSep \o <<"g">>,
         <<"H", "T", "T", "P">> \o SchemeSep \o <<"G", ".", "i", "o">>}}

\* Host names: a registered name under at most MaxLabels further labels.
BankIo == <<"b", "a", "n", "k", ".", "i", "o">>
EvilBankIo == <<"e", "v", "i", "l">> \o BankIo
BaseNames == {BankIo, EvilBankIo, <<"i", "o">>, <<"b", "a", "n", "k">>}
SubLabels == {<<"w", "w", "w">>, <<"W", "W", "W">>, <<"x">>}
RECURSIVE SubPrefixes(_)
SubPrefixes(n) ==
    IF n = 0 THEN {<<>>}
    ELSE LET shorter == SubPrefixes(n - 1)
         IN shorter \cup {l \o <<".">> \o s : l \in SubLabels, s \in shorter}
NamedHosts == {s \o b : s \in SubPrefixes(MaxLabels), b \in BaseNames}

TrustedConfigs == {{}, {BankIo}, {BankIo, <<"i", "o">>}}

DecideUrls ==
    {pre \o h : pre \in {<<>>, HTTP \o SchemeSep, HTTPS \o SchemeSep},
                h \in NamedHosts \cup IPLiterals}
Probabilities == 0..ProbSteps

\* What a client may send as the url query parameter.
JunkUrls == {<<>>, <<" ">>, <<"ZW">>, <<"g", " ", "g">>, <<"g", "$", ".", "i", "o">>,
             HTTPS \o SchemeSep}
\* A url that turns most rows of the heuristics red, and a host with a digit.
RichUrls ==
    {<<"l", "o", "g", "i", "n", ".", "a", ".", "b", ".", "c", ".", "e", "v", "i", "l",
       ".", "x", "y", "z", "/", "w", "i", "n", "?", "a", "=", "1", "&", "b", "=", "2">>,
     <<"1", ".", "i", "o">>}
ApiUrls ==
    JunkUrls \cup RichUrls \cup {FTP \o SchemeSep \o BankIo}
             \cup {pre \o h : pre \in Prefixes, h \in NamedHosts \cup IPLiterals}
Endpoints == {"predict", "explain"}

\* The items of a batch: URLs, the empty string and a value that is no str.
ItemPool ==
    {PyNone} \cup {PyStr(s) : s \in
        {<<>>,
         <<"h", "t", "t", "p", ":", "/", "/", "1", ".", "1", ".", "1", ".", "1">>,
         <<"h", "t", "t", "p", "s", ":", "/", "/", "w", "w", "w", ".", "b", "a", "n", "k", ".", "i", "o", "/", "l", "o", "g", "i", "n", "?", "x", "=", "1", "&", "y", "=", "2">>,
         <<"x", "@", "e", "v", "i", "l", ".", "x", "y", "z">>,
         <<"[", ":", ":", "1">>}}
\* The items of a batch given to the tokenizer.
TokenPool ==
    ItemPool \cup {PyStr(s) : s \in
        {<<"h", "t", "t", "p", ":", "/", "/", "B", "-", "S", "i", "t", "e", ".", "o", "r", "g">>,
         <<"s", "u", "b", ".", "e", "x", "a", "m", "p", "l", "e", ".", "c", "o", "m", "/", "a", ".", "b">>}}
TokenBatches ==
    {[kind |-> k, items |-> b] : k \in {"list", "frame"}, b \in SeqsUpTo(TokenPool, MaxBatch)}
Batches ==
    {[kind |-> k, items |-> b] : k \in {"list", "frame"}, b \in SeqsUpTo(ItemPool, MaxBatch)}

(***************************************************************************)
(* The calls of the library functions, one action per call.                *)
(***************************************************************************)
NoRet == <<>>

CallNormalize(x) ==
    /\ op = "idle"
    /\ op' = "normalize_url"
    /\ arg' = x
    /\ ret' = normalize_url(x)
    /\ prev' = NoRet
    /\ raised' = FALSE
    /\ UNCHANGED <<cfgVars, reqVars>>

\* normalize_url applied to the value it returned.
CallNormalizeAgain ==
    /\ op = "normalize_url"
    /\ op' = "normalize_url_again"
    /\ prev' = ret
    /\ ret' = normalize_url(PyStr(ret))
    /\ raised' = FALSE
    /\ UNCHANGED <<arg, cfgVars, reqVars>>

CallParse(x) ==
    /\ op = "idle"
    /\ op' = "parse_url"
    /\ arg' = x
    /\ \E r \in {parse_url(x)} : ret' = r.val /\ raised' = r.raised
    /\ prev' = NoRet
    /\ UNCHANGED <<cfgVars, reqVars>>

CallPostprocess(u, p, threshold) ==
    /\ op = "idle"
    /\ op' = "postprocess_prediction"
    /\ arg' = [url |-> u, proba |-> p, threshold |-> threshold]
    /\ \E r \in {postprocess_prediction(u, p, threshold)} :
          ret' = r.val /\ raised' = r.raised
    /\ prev' = NoRet
    /\ UNCHANGED <<cfgVars, reqVars>>

CallTransform(X) ==
    /\ op = "idle"
    /\ op' = "transform"
    /\ arg' = X
    /\ \E r \in {transform(X)} : ret' = r.val /\ raised' = r.raised
    /\ prev' = NoRet
    /\ UNCHANGED <<cfgVars, reqVars>>

CallTokenize(X) ==
    /\ op = "idle"
    /\ op' = "tokenize"
    /\ arg' = X
    /\ \E r \in {tokenize(X)} : ret' = r.val /\ raised' = r.raised
    /\ prev' = NoRet
    /\ UNCHANGED <<cfgVars, reqVars>>

CallValid(x) ==
    /\ op = "idle"
    /\ op' = "is_valid_url_or_ip"
    /\ arg' = x
    /\ \E r \in {is_valid_call(x)} : ret' = r.val /\ raised' = r.raised
    /\ prev' = NoRet
    /\ UNCHANGED <<cfgVars, reqVars>>

IdleRequest ==
    /\ pc = "idle" /\ endpoint = "none" /\ rawUrl = <<>> /\ url = <<>> /\ proba = 0
    /\ calls = <<>> /\ status = 0 /\ detail = "none" /\ body = <<>>

IdleCall ==
    /\ op = "idle" /\ arg = PyNone /\ ret = NoRet /\ prev = NoRet /\ raised = FALSE

DefaultConfig ==
    /\ TRUSTED_DOMAINS = {}
    /\ THRESHOLD = ProbSteps
    /\ VALID_TLDS = FallbackTlds
    /\ bracketCheck = TRUE

InitNormalize == DefaultConfig /\ IdleCall /\ IdleRequest

NextNormalize ==
    \/ \E x \in RawInputs : CallNormalize(x)
    \/ CallNormalizeAgain

SpecNormalize == InitNormalize /\ [][NextNormalize]_vars

(***************************************************************************)
(* C1: normalize_url is idempotent: normalising a value that               *)
(* normalize_url returned gives that value back, for every input (text     *)
(* with invisible characters, surrounding whitespace, with or without a    *)
(* scheme, and non-text).                                                  *)
(***************************************************************************)
C1_Idempotent == op = "normalize_url_again" => ret = prev

\* A raw input with whitespace and an invisible character and no scheme was
\* normalised twice, and the first pass changed it.
C1_Witness ==
    /\ op = "normalize_url_again"
    /\ arg.isstr
    /\ Contains(arg.s, "ZW") /\ Contains(arg.s, " ")
    /\ ~HasSchemePrefix(arg.s)
    /\ StartsWith(prev, HTTP \o SchemeSep)
    /\ Len(prev) > 7

(***************************************************************************)
(* api/api.py: the /predict and /explain handlers, one action per step of  *)
(* a request.  calls lists the functions the handler has called.           *)
(***************************************************************************)
\* FastAPI hands the handler the query parameter, always a str.
Request(e, raw) ==
    /\ pc = "idle"
    /\ pc' = "normalize"
    /\ endpoint' = e
    /\ rawUrl' = raw
    /\ url' = raw
    /\ proba' = 0
    /\ calls' = <<>>
    /\ status' = 0
    /\ detail' = "none"
    /\ body' = <<>>
    /\ UNCHANGED <<cfgVars, callVars>>

\* raise HTTPException(status_code=code, detail=d)
Respond(code, d, payload) ==
    /\ pc' = "done"
    /\ status' = code
    /\ detail' = d
    /\ body' = payload

\* url = normalize_url(url), api.py:84 and api.py:143
Normalize ==
    /\ pc = "normalize"
    /\ url' = normalize_url(PyStr(url))
    /\ calls' = Append(calls, "normalize_url")
    /\ pc' = "guard_empty"
    /\ UNCHANGED <<cfgVars, callVars, endpoint, rawUrl, proba, status, detail, body>>

\* if not url.strip(), api.py:85-86 and api.py:144-145
GuardEmpty ==
    /\ pc = "guard_empty"
    /\ IF StripChars(url, Whitespace) = <<>>
       THEN Respond(400, "empty", <<>>)
       ELSE pc' = "guard_valid" /\ UNCHANGED <<status, detail, body>>
    /\ UNCHANGED <<cfgVars, callVars, endpoint, rawUrl, url, proba, calls>>

\* if not is_valid_url_or_ip(url), api.py:87-88 and api.py:146-147
GuardValid ==
    /\ pc = "guard_valid"
    /\ calls' = Append(calls, "is_valid_url_or_ip")
    /\ IF ~is_valid_url_or_ip(url)
       THEN Respond(400, "invalid_format", <<>>)
       ELSE pc' = "guard_plausible" /\ UNCHANGED <<status, detail, body>>
    /\ UNCHANGED <<cfgVars, callVars, endpoint, rawUrl, url, proba>>

\* A plausibility guard whose verdict is ignored.
GuardPlausibleIgnored ==
    /\ pc = "guard_plausible"
    /\ calls' = Append(calls, "is_plausible_url")
    /\ pc' = "core"
    /\ UNCHANGED <<cfgVars, callVars, endpoint, rawUrl, url, proba, status, detail, body>>

\* if not is_plausible_url(url), api.py:89-90 and api.py:148-149
GuardPlausible ==
    /\ pc = "guard_plausible"
    /\ calls' = Append(calls, "is_plausible_url")
    /\ IF ~is_plausible_url(url)
       THEN Respond(400, "implausible", <<>>)
       ELSE pc' = "core" /\ UNCHANGED <<status, detail, body>>
    /\ UNCHANGED <<cfgVars, callVars, endpoint, rawUrl, url, proba>>

\* proba = pipeline.predict_proba(X)[0, 1], api.py:93-100: the classifier
\* answers with some probability.  The HTTPException of api.py:95 is caught
\* by api.py:111 and becomes a 500.
Classify ==
    /\ pc = "core" /\ endpoint = "predict"
    /\ IF url = <<>>
       THEN /\ Respond(500, "error", <<>>)
            /\ UNCHANGED <<proba, calls>>
       ELSE /\ calls' = Append(calls, "predict_proba")
            /\ \E p \in Probabilities : proba' = p
            /\ pc' = "postprocess"
            /\ UNCHANGED <<status, detail, body>>
    /\ UNCHANGED <<cfgVars, callVars, endpoint, rawUrl, url>>

\* A handler that answers a failure of the classifier with a safe verdict.
ClassifierFailsDefaultSafe ==
    /\ pc = "core" /\ endpoint = "predict" /\ url # <<>>
    /\ calls' = Append(calls, "predict_proba")
    /\ Respond(200, "prediction",
               [url |-> url, prediction |-> 0, class_name |-> "safe",
                probability |-> 0, threshold |-> THRESHOLD, trusted |-> FALSE])
    /\ UNCHANGED <<cfgVars, callVars, endpoint, rawUrl, url, proba>>

\* The classifier raises: api.py:111-113 turn it into a 500.
ClassifierFails ==
    /\ pc = "core" /\ endpoint = "predict" /\ url # <<>>
    /\ calls' = Append(calls, "predict_proba")
    /\ Respond(500, "error", <<>>)
    /\ UNCHANGED <<cfgVars, callVars, endpoint, rawUrl, url, proba>>

\* A handler that remembers the hosts it found safe as trusted domains.
PostprocessLearnsTrusted ==
    /\ pc = "postprocess"
    /\ calls' = Append(calls, "postprocess_prediction")
    /\ \E r \in {postprocess_prediction(url, proba, THRESHOLD)} :
          /\ Respond(200, "prediction",
                     [url |-> url, prediction |-> r.val.pred,
                      class_name |-> r.val.class_name,
                      probability |-> r.val.proba,
                      threshold |-> r.val.threshold,
                      trusted |-> r.val.trusted])
          /\ TRUSTED_DOMAINS' =
                IF r.val.pred = 0
                THEN TRUSTED_DOMAINS \cup {DomainOf(urlparse(url).val.netloc)}
                ELSE TRUSTED_DOMAINS
    /\ UNCHANGED <<THRESHOLD, VALID_TLDS, bracketCheck, callVars, endpoint, rawUrl, url, proba>>

\* postprocess_prediction(url, proba) and the payload, api.py:101-109
Postprocess ==
    /\ pc = "postprocess"
    /\ calls' = Append(calls, "postprocess_prediction")
    /\ \E r \in {postprocess_prediction(url, proba, THRESHOLD)} :
          IF r.raised
          THEN Respond(500, "error", <<>>)
          ELSE Respond(200, "prediction",
                       [url |-> url, prediction |-> r.val.pred,
                        class_name |-> r.val.class_name,
                        probability |-> r.val.proba,
                        threshold |-> r.val.threshold,
                        trusted |-> r.val.trusted])
    /\ UNCHANGED <<cfgVars, callVars, endpoint, rawUrl, url, proba>>

\* The heuristics of /explain, api.py:151-216.
Explain ==
    /\ pc = "core" /\ endpoint = "explain"
    /\ calls' = Append(calls, "heuristics")
    /\ \E parsed \in {urlparse(url)} :
          IF parsed.exc
          THEN Respond(500, "error", <<>>)
          ELSE Respond(200, "explanation",
                       explain_parsed(url, DomainOf(parsed.val.netloc),
                                      Lower(parsed.val.path)))
    /\ UNCHANGED <<cfgVars, callVars, endpoint, rawUrl, url, proba>>

\* The response is sent; the worker is free for the next request.
Finish ==
    /\ pc = "done"
    /\ pc' = "idle" /\ endpoint' = "none" /\ rawUrl' = <<>> /\ url' = <<>>
    /\ proba' = 0 /\ calls' = <<>> /\ status' = 0 /\ detail' = "none" /\ body' = <<>>
    /\ UNCHANGED <<cfgVars, callVars>>

InitApi ==
    /\ TRUSTED_DOMAINS \in TrustedConfigs
    /\ THRESHOLD \in 1..ProbSteps
    /\ VALID_TLDS \in {FallbackTlds, IanaTlds}
    /\ bracketCheck \in BOOLEAN
    /\ IdleCall /\ IdleRequest

NextApi ==
    \/ \E e \in Endpoints, raw \in ApiUrls : Request(e, raw)
    \/ Normalize
    \/ GuardEmpty
    \/ GuardValid
    \/ GuardPlausible
    \/ Classify
    \/ ClassifierFails
    \/ Postprocess
    \/ Explain
    \/ Finish

SpecApi == InitApi /\ [][NextApi]_vars

CoreCalls == {"predict_proba", "postprocess_prediction", "heuristics"}
CoreInvoked == \E i \in 1..Len(calls) : calls[i] \in CoreCalls
GuardOrder == <<"normalize_url", "is_valid_url_or_ip", "is_plausible_url">>
IsPrefix(s, w) == Len(s) <= Len(w) /\ s = SubSeq(w, 1, Len(s))
NormalizedRaw == normalize_url(PyStr(rawUrl))

(***************************************************************************)
(* C7: in every /predict and /explain request the guards run in the order  *)
(* empty check, is_valid_url_or_ip, is_plausible_url, on the normalised    *)
(* url; the first guard that fails ends the request with HTTP 400 (the     *)
(* empty-URL detail for empty input, the invalid-format detail for invalid *)
(* syntax); the classifier and the heuristics are never invoked in a       *)
(* request in which a guard failed.                                        *)
(***************************************************************************)
C7_GuardsBeforeCore ==
    pc # "idle" =>
        /\ \/ IsPrefix(calls, GuardOrder)
           \/ /\ SubSeq(calls, 1, 3) = GuardOrder
              /\ \A i \in 4..Len(calls) : calls[i] \in CoreCalls
        /\ status = 400 => ~CoreInvoked
        /\ CoreInvoked =>
              /\ StripChars(NormalizedRaw, Whitespace) # <<>>
              /\ is_valid_url_or_ip(NormalizedRaw)
              /\ is_plausible_url(NormalizedRaw)
        /\ pc = "done" =>
              IF StripChars(NormalizedRaw, Whitespace) = <<>>
              THEN status = 400 /\ detail = "empty" /\ calls = SubSeq(GuardOrder, 1, 1)
              ELSE IF ~is_valid_url_or_ip(NormalizedRaw)
              THEN status = 400 /\ detail = "invalid_format"
                   /\ calls = SubSeq(GuardOrder, 1, 2)
              ELSE IF ~is_plausible_url(NormalizedRaw)
              THEN status = 400 /\ detail = "implausible" /\ calls = GuardOrder
              ELSE status # 400 /\ CoreInvoked

\* A request with valid syntax and an implausible domain ended with 400
\* after all three guards had run and before the core was called.
C7_Witness ==
    /\ pc = "done" /\ status = 400 /\ detail = "implausible"
    /\ calls = GuardOrder
    /\ is_valid_url_or_ip(NormalizedRaw)

\* A request with invalid syntax ended with the invalid-format 400.
C7_WitnessInvalid ==
    /\ pc = "done" /\ status = 400 /\ detail = "invalid_format"
    /\ rawUrl = <<"g", " ", "g">>

\* A request that passed every guard was classified.
C7_WitnessPassed ==
    /\ pc = "done" /\ status = 200 /\ endpoint = "predict"
    /\ calls = GuardOrder \o <<"predict_proba", "postprocess_prediction">>

(***************************************************************************)
(* C8: an IP literal sent to /predict (an IPv4 address, or an IPv6 address *)
(* in brackets) passes the guards and is classified: the response is not a *)
(* 400 rejection, and carries a prediction in {0, 1} with class phishing   *)
(* or safe.                                                                *)
(***************************************************************************)
IsIPLiteralRequest ==
    rawUrl \in IPv4Literals \cup {<<"[">> \o a \o <<"]">> : a \in IPv6Literals}

C8_IPLiteralClassified ==
    (pc = "done" /\ endpoint = "predict" /\ IsIPLiteralRequest) =>
        /\ status # 400
        /\ status = 200 =>
              /\ body.prediction \in {0, 1}
              /\ body.class_name \in {"phishing", "safe"}

\* What the handler does with an IP literal: every one is turned away by
\* is_plausible_url, after is_valid_url_or_ip accepted it.
C8_IPLiteralRejected ==
    (pc = "done" /\ IsIPLiteralRequest) =>
        status = 400 /\ detail = "implausible" /\ calls = GuardOrder

\* A successful /explain response.
ExplainDone == pc = "done" /\ endpoint = "explain" /\ status = 200

\* A successful /predict response.
PredictDone == pc = "done" /\ endpoint = "predict" /\ status = 200

\* The host of the report: the lower-cased netloc less a leading "www.".
ExplainHost ==
    LET d == Lower(urlparse(url).val.netloc)
    IN IF StartsWith(d, WwwDot) THEN Drop(d, 4) ELSE d

RowValue(name) ==
    LET rows == body.explanations
    IN rows[CHOOSE i \in 1..Len(rows) : rows[i].feature = name].value

(***************************************************************************)
(* C11, as the code has it: in the /explain report num_subdomains is the   *)
(* number of "." in the host minus 1 (the number of labels minus 2) when   *)
(* the host contains a dot, and 0 when it does not; the host is the        *)
(* lower-cased netloc with a leading "www." removed.                       *)
(***************************************************************************)
C11_SubdomainsDotsLessOne ==
    ExplainDone =>
        RowValue("num_subdomains") =
            IF Contains(ExplainHost, ".") THEN Count(ExplainHost, ".") - 1 ELSE 0

\* C11 as stated: the number of "." in the host minus 2 when the host
\* contains a dot, 0 when it does not.
C11_SubdomainsDotsLessTwo ==
    ExplainDone =>
        RowValue("num_subdomains") =
            IF Contains(ExplainHost, ".") THEN Count(ExplainHost, ".") - 2 ELSE 0

\* A report on a host of six labels (five dots after "www." is cut: none
\* here) gives four subdomains.
C11_Witness ==
    /\ ExplainDone
    /\ Count(ExplainHost, ".") = 5
    /\ RowValue("num_subdomains") = 4

(***************************************************************************)
(* C12: every successful /explain response has exactly 11 explanation      *)
(* entries, named in this order url_length, num_dots, num_special_chars,   *)
(* entropy, is_ip_address, num_subdomains, suspicious_keywords,            *)
(* suspicious_path_keywords, tld, is_suspicious_tld, is_trusted_domain,    *)
(* and the color of every entry is green, yellow or red.                   *)
(***************************************************************************)
ExplainFeatureOrder ==
    <<"url_length", "num_dots", "num_special_chars", "entropy", "is_ip_address",
      "num_subdomains", "suspicious_keywords", "suspicious_path_keywords", "tld",
      "is_suspicious_tld", "is_trusted_domain">>

C12_ElevenRows ==
    ExplainDone =>
        /\ Len(body.explanations) = 11
        /\ [i \in 1..Len(body.explanations) |-> body.explanations[i].feature]
              = ExplainFeatureOrder
        /\ \A i \in 1..Len(body.explanations) :
              body.explanations[i].color \in {"green", "yellow", "red"}

\* A report with a yellow row (the length), red rows and green rows.
C12_Witness ==
    /\ ExplainDone
    /\ body.explanations[1].color = "yellow"
    /\ body.explanations[2].color = "red"
    /\ body.explanations[7].value = <<<<"l", "o", "g", "i", "n">>>>
    /\ body.explanations[8].value = <<<<"w", "i", "n">>>>
    /\ body.explanations[9].color = "red"
    /\ body.explanations[5].color = "green"

(***************************************************************************)
(* C15: when the classifier raises while /predict handles a request that   *)
(* passed all guards, the request ends with HTTP 500 and without a         *)
(* prediction payload; the classifier is not called again and no default   *)
(* verdict takes the place of the failure.                                 *)
(***************************************************************************)
\* The request ended right after its call of the classifier: the call raised.
ClassifierRaised ==
    /\ pc = "done" /\ endpoint = "predict"
    /\ calls # <<>> /\ calls[Len(calls)] = "predict_proba"

C15_ClassifierFailureIs500 ==
    /\ Cardinality({i \in 1..Len(calls) : calls[i] = "predict_proba"}) <= 1
    /\ ClassifierRaised =>
          /\ status = 500 /\ detail = "error" /\ body = <<>>
          /\ SubSeq(calls, 1, 3) = GuardOrder

C15_Witness ==
    /\ ClassifierRaised /\ status = 500
    /\ is_plausible_url(NormalizedRaw)

(***************************************************************************)
(* C16: no /predict or /explain request modifies the process-wide state    *)
(* (TRUSTED_DOMAINS, VALID_TLDS, THRESHOLD), so after any sequence of      *)
(* requests the response to a request is the response the same request     *)
(* gets when it runs alone with the same outcome of the classifier.        *)
(***************************************************************************)
\* The payload of /predict for the normalized url u and the probability p.
PredictionAlone(u, p) ==
    LET d == postprocess_prediction(u, p, THRESHOLD).val
    IN [url |-> u, prediction |-> d.pred, class_name |-> d.class_name,
        probability |-> d.proba, threshold |-> d.threshold, trusted |-> d.trusted]

\* The payload of /explain for the normalized url u.
ExplanationAlone(u) ==
    LET parsed == urlparse(u).val
    IN explain_parsed(u, DomainOf(parsed.netloc), Lower(parsed.path))

\* <<status, detail, body>> of the request (e, raw) on its own, given the
\* probability p of the classifier or its failure.
ResponseAlone(e, raw, p, failed) ==
    LET u == normalize_url(PyStr(raw))
    IN IF StripChars(u, Whitespace) = <<>> THEN <<400, "empty", <<>>>>
       ELSE IF ~is_valid_url_or_ip(u) THEN <<400, "invalid_format", <<>>>>
       ELSE IF ~is_plausible_url(u) THEN <<400, "implausible", <<>>>>
       ELSE IF e = "explain" THEN <<200, "explanation", ExplanationAlone(u)>>
       ELSE IF failed THEN <<500, "error", <<>>>>
       ELSE <<200, "prediction", PredictionAlone(u, p)>>

C18_NeverIpRow ==
    ExplainDone =>
        \A i \in 1..Len(body.explanations) :
            body.explanations[i].feature = "is_ip_address" =>
                /\ body.explanations[i].value = FALSE
                /\ body.explanations[i].color = "green"

\* A report on a host that has a digit and a dot: its row is green.
C18_Witness ==
    /\ ExplainDone
    /\ \E i \in 1..Len(ExplainHost) : ExplainHost[i] \in Digits
    /\ body.explanations[5].feature = "is_ip_address"
    /\ body.explanations[5].color = "green"

(***************************************************************************)
(* parse_url on its own.  The interpreter either validates bracketed hosts *)
(* in urlsplit (CPython 3.11.4 and later) or does not.                     *)
(***************************************************************************)
InitParse ==
    /\ TRUSTED_DOMAINS = {}
    /\ THRESHOLD = ProbSteps
    /\ VALID_TLDS = FallbackTlds
    /\ bracketCheck \in BOOLEAN
    /\ IdleCall /\ IdleRequest

NextParse == \E x \in ParseInputs : CallParse(x)

SpecParse == InitParse /\ [][NextParse]_vars

\* The normalised argument has no "://": host extraction fails.
HostExtractionFails(x) == Find(normalize_url(x), SchemeSep) = 0

\* The candidate host of the argument, brackets stripped, is an IP address.
HostIsIP(x) ==
    /\ ~HostExtractionFails(x)
    /\ IsIPAddress(StripChars(CandidateHost(normalize_url(x)), Brackets))

\* The host is no IP address and urlparse raises on the normalised argument.
DecompositionFails(x) ==
    /\ ~HostExtractionFails(x)
    /\ ~HostIsIP(x)
    /\ urlparse(normalize_url(x)).exc

C2_WitnessNonText ==
    /\ op = "parse_url" /\ ~arg.isstr /\ HostExtractionFails(arg)
    /\ ret = Sentinel /\ ~raised

(***************************************************************************)
(* C3: whenever parse_url recognises the candidate host as an IPv6         *)
(* address, the returned host is that address between exactly one "[" and  *)
(* one "]", whether the input host had no, both or only one bracket.       *)
(***************************************************************************)
C3_BracketWrapped ==
    (op = "parse_url" /\ HostIsIP(arg)) =>
        LET addr == StripChars(CandidateHost(normalize_url(arg)), Brackets)
        IN IsIPv6(addr) => ret.netloc = <<"[">> \o addr \o <<"]">>

\* The same, for hosts that come with no bracket or with both brackets.
C3_BalancedWrapped ==
    (op = "parse_url" /\ HostIsIP(arg)) =>
        LET host == CandidateHost(normalize_url(arg))
            addr == StripChars(host, Brackets)
        IN (IsIPv6(addr) /\ host \in {addr, <<"[">> \o addr \o <<"]">>})
              => ret.netloc = <<"[">> \o addr \o <<"]">>

(***************************************************************************)
(* postprocess_prediction on its own, under each trusted-domain list.      *)
(***************************************************************************)
InitDecide ==
    /\ TRUSTED_DOMAINS \in TrustedConfigs
    /\ THRESHOLD = ProbSteps
    /\ VALID_TLDS = FallbackTlds
    /\ bracketCheck = TRUE
    /\ IdleCall /\ IdleRequest

NextDecide ==
    \E u \in DecideUrls, p \in Probabilities, threshold \in Probabilities :
        CallPostprocess(u, p, threshold)

SpecDecide == InitDecide /\ [][NextDecide]_vars

\* The text between "//" and the next "/", "?" or "#" of a url that starts
\* with a scheme and "//"; empty for a url without "//".
NetlocOfArg ==
    LET u == arg.url
        i == Find(u, <<"/", "/">>)
    IN IF i = 0 THEN <<>> ELSE SubSeq(u, i + 2, FirstOf(u, {"/", "?", "#"}, i + 2) - 1)

\* The host as the claim describes it: lower-cased, a leading "www." removed.
ClaimedHost ==
    LET lowered == [i \in 1..Len(NetlocOfArg) |-> ToLowerChar(NetlocOfArg[i])]
    IN IF Len(lowered) >= 4 /\ SubSeq(lowered, 1, 4) = WwwDot
       THEN SubSeq(lowered, 5, Len(lowered))
       ELSE lowered

\* h is td, or h is some non-empty text, a dot, and td.
LabelAligned(h, td) ==
    \/ h = td
    \/ \E k \in 1..Len(h) : h[k] = "." /\ SubSeq(h, k + 1, Len(h)) = td

ClaimedTrusted == \E td \in TRUSTED_DOMAINS : LabelAligned(ClaimedHost, td)

(***************************************************************************)
(* C4: the trusted-domain test is true exactly when the host, lower-cased  *)
(* and without a leading "www.", equals a trusted entry or ends with "."   *)
(* and that entry; a host that has a trusted entry only as a suffix that   *)
(* is not label-aligned is not trusted; with no trusted entry no host is.  *)
(***************************************************************************)
C4_TrustedIff ==
    (op = "postprocess_prediction" /\ ~raised) =>
        /\ ret.trusted <=> ClaimedTrusted
        /\ TRUSTED_DOMAINS = {} => ~ret.trusted
        /\ (\A td \in TRUSTED_DOMAINS : ~LabelAligned(ClaimedHost, td)) => ~ret.trusted

\* evilbank.io was tested against the list that holds only bank.io.
C4_Witness ==
    /\ op = "postprocess_prediction" /\ ~raised
    /\ TRUSTED_DOMAINS = {BankIo}
    /\ ClaimedHost = <<"e", "v", "i", "l">> \o BankIo
    /\ ~ret.trusted

\* WWW.bank.io was found trusted.
C4_WitnessWww ==
    /\ op = "postprocess_prediction" /\ ~raised
    /\ TRUSTED_DOMAINS = {BankIo}
    /\ NetlocOfArg = <<"W", "W", "W", ".">> \o BankIo
    /\ ret.trusted

(***************************************************************************)
(* C5: when the host is trusted, postprocess_prediction returns label 0,   *)
(* class "safe", trusted true, and the probability and threshold it was    *)
(* given, whatever the probability and the threshold are.                  *)
(***************************************************************************)
C5_TrustedIsSafe ==
    (op = "postprocess_prediction" /\ ~raised /\ ClaimedTrusted) =>
        /\ ret.pred = 0
        /\ ret.class_name = "safe"
        /\ ret.trusted = TRUE
        /\ ret.proba = arg.proba
        /\ ret.threshold = arg.threshold

\* A trusted host with a probability above the threshold was declared safe.
C5_Witness ==
    /\ op = "postprocess_prediction" /\ ~raised /\ ClaimedTrusted
    /\ arg.proba > arg.threshold
    /\ ret.pred = 0 /\ ret.proba = arg.proba

(***************************************************************************)
(* C6: when the host is not trusted, the label is 1 exactly when the       *)
(* probability is at least the threshold (equal counts as phishing), the   *)
(* class is "phishing" exactly when the label is 1 and "safe" otherwise,   *)
(* and trusted is false.                                                   *)
(***************************************************************************)
C6_UntrustedByThreshold ==
    (op = "postprocess_prediction" /\ ~raised /\ ~ClaimedTrusted) =>
        /\ ret.pred \in {0, 1}
        /\ ret.pred = 1 <=> arg.proba >= arg.threshold
        /\ ret.class_name = "phishing" <=> ret.pred = 1
        /\ ret.class_name = "safe" <=> ret.pred = 0
        /\ ret.trusted = FALSE

\* An untrusted host with probability equal to the threshold was phishing.
C6_Witness ==
    /\ op = "postprocess_prediction" /\ ~raised /\ ~ClaimedTrusted
    /\ arg.proba = arg.threshold
    /\ ret.pred = 1 /\ ret.class_name = "phishing"

(***************************************************************************)
(* URLFeatureExtractor.transform on its own.                               *)
(***************************************************************************)
InitTransform ==
    /\ TRUSTED_DOMAINS = {}
    /\ THRESHOLD = ProbSteps
    /\ VALID_TLDS = FallbackTlds
    /\ bracketCheck \in BOOLEAN
    /\ IdleCall /\ IdleRequest

NextTransform == \E X \in Batches : CallTransform(X)

SpecTransform == InitTransform /\ [][NextTransform]_vars

AllText(X) == \A i \in 1..Len(X.items) : X.items[i].isstr

(***************************************************************************)
(* C9: transform never raises, for any input sequence, items that are no   *)
(* text or are malformed included: it returns one row for every item, and  *)
(* a failure on one item costs only that item's value, not the batch.      *)
(***************************************************************************)
C9_TransformNeverRaises ==
    op = "transform" => (~raised /\ Len(ret.rows) = Len(arg.items))

\* What the code does: a batch with an item that is no str raises, and no
\* row of any item is returned.
C9_NonTextRaises ==
    op = "transform" => (raised <=> ~AllText(arg))

(***************************************************************************)
(* C10: for every batch of URLs, transform returns one row per URL, and    *)
(* the columns are the 14 fields url_length, num_digits,                   *)
(* num_special_chars, num_subdomains, has_ip, num_slashes, domain_length,  *)
(* has_suspicious_keyword, has_suspicious_tld, domain_entropy,             *)
(* num_query_params, query_length, has_https, has_at_symbol in this order, *)
(* each row holding its values in that order: has_ip, computed last, is    *)
(* the fifth.                                                              *)
(***************************************************************************)
C10_ColumnOrder ==
    (op = "transform" /\ AllText(arg)) =>
        /\ ~raised
        /\ ret.columns =
             <<"url_length", "num_digits", "num_special_chars", "num_subdomains",
               "has_ip", "num_slashes", "domain_length", "has_suspicious_keyword",
               "has_suspicious_tld", "domain_entropy", "num_query_params",
               "query_length", "has_https", "has_at_symbol">>
        /\ Len(ret.rows) = Len(arg.items)
        /\ \A i \in 1..Len(ret.rows) :
              LET u == arg.items[i].s
                  row == ret.rows[i]
              IN /\ Len(row) = 14
                 /\ row[1] = Len(u)
                 /\ row[5] \in {0, 1}
                 /\ row[6] = Cardinality({k \in 1..Len(u) : u[k] = "/"})
                 /\ row[14] = (IF \E k \in 1..Len(u) : u[k] = "@" THEN 1 ELSE 0)

\* A batch of two URLs came back as two rows, the first with has_ip = 1 in
\* the fifth column and two slashes in the sixth.
C10_Witness ==
    /\ op = "transform" /\ ~raised
    /\ Len(arg.items) = 2 /\ Len(ret.rows) = 2
    /\ ret.rows[1][5] = 1 /\ ret.rows[1][6] = 2
    /\ ret.rows[2][5] = 0

(***************************************************************************)
(* DomainTokenizer.transform on its own.                                   *)
(***************************************************************************)
InitTokenize ==
    /\ TRUSTED_DOMAINS = {}
    /\ THRESHOLD = ProbSteps
    /\ VALID_TLDS = FallbackTlds
    /\ bracketCheck \in BOOLEAN
    /\ IdleCall /\ IdleRequest

NextTokenize == \E X \in TokenBatches : CallTokenize(X)

SpecTokenize == InitTokenize /\ [][NextTokenize]_vars

\* The host of an item: the lower-cased netloc of its normalized url.
ItemHost(item) == Lower(urlparse(normalize_url(item)).val.netloc)

\* The url of every item of the batch can be decomposed.
AllDecomposable(X) ==
    \A i \in 1..Len(X.items) : ~urlparse(normalize_url(X.items[i])).exc

\* The tokens the batch X is to give: per item its host, each "." and each
\* "-" replaced by one space.
TokensAsStated(X, tokens) ==
    /\ Len(tokens) = Len(X.items)
    /\ \A i \in 1..Len(tokens) :
          /\ Len(tokens[i]) = Len(ItemHost(X.items[i]))
          /\ \A j \in 1..Len(tokens[i]) :
                /\ tokens[i][j] \notin {".", "-"}
                /\ tokens[i][j] =
                      IF ItemHost(X.items[i])[j] \in {".", "-"}
                      THEN " " ELSE ItemHost(X.items[i])[j]

(***************************************************************************)
(* C13: DomainTokenizer.transform returns exactly one token string per     *)
(* input url, in input order; each token string is the lower-cased host of *)
(* the normalized url with every "." and every "-" replaced by a single    *)
(* space, so it is as long as the host and holds no "." and no "-".        *)
(***************************************************************************)
C13_OneTokenPerUrl ==
    op = "tokenize" => (~raised /\ TokensAsStated(arg, ret))

\* What the code does: the tokens are as stated when every url can be
\* decomposed, and the call raises, returning nothing, when one cannot.
C13_TokensOrRaises ==
    op = "tokenize" =>
        IF AllDecomposable(arg) THEN ~raised /\ TokensAsStated(arg, ret)
        ELSE raised /\ ret = <<>>

(***************************************************************************)
(* is_valid_url_or_ip on its own.                                          *)
(***************************************************************************)
InitValid ==
    /\ TRUSTED_DOMAINS = {}
    /\ THRESHOLD = ProbSteps
    /\ VALID_TLDS = FallbackTlds
    /\ bracketCheck \in BOOLEAN
    /\ IdleCall /\ IdleRequest

NextValid == \E x \in ValidInputs : CallValid(x)

SpecValid == InitValid /\ [][NextValid]_vars

\* The trimmed input.
Trimmed(x) == StripChars(x.s, Whitespace)

\* An IPv4 or IPv6 literal, or one between "[" and "]".
IsIPLiteralOptBrackets(u) ==
    \/ IsIPAddress(u)
    \/ /\ Len(u) >= 2 /\ u[1] = "[" /\ u[Len(u)] = "]"
       /\ IsIPAddress(SubSeq(u, 2, Len(u) - 1))

\* With "http://" in front when it has no scheme, u decomposes into a
\* scheme http or https and a non-empty netloc of the allowed characters.
IsHttpUrl(u) ==
    LET r == urlparse(IF HasSchemePrefix(u) THEN u ELSE HTTP \o SchemeSep \o u)
    IN /\ ~r.exc
       /\ r.val.scheme \in {HTTP, HTTPS}
       /\ r.val.netloc # <<>>
       /\ \A i \in 1..Len(r.val.netloc) : r.val.netloc[i] \in NetlocChars

(***************************************************************************)
(* C14: is_valid_url_or_ip never raises and returns True exactly when the  *)
(* trimmed input is an IPv4/IPv6 literal (optionally in brackets) or,      *)
(* after "http://" is prepended when it has no scheme, its scheme is http  *)
(* or https and its netloc is non-empty and made only of the characters    *)
(* A-Z, a-z, 0-9, ".", "-", "[", "]", ":"; it returns False for None,      *)
(* empty and whitespace-only input, for other schemes, for an empty netloc *)
(* and for a netloc with spaces, "$" or non-Latin letters.                 *)
(***************************************************************************)
C14_ValidIff ==
    op = "is_valid_url_or_ip" =>
        /\ ~raised
        /\ ret = (/\ arg.isstr
                  /\ Trimmed(arg) # <<>>
                  /\ (IsIPLiteralOptBrackets(Trimmed(arg)) \/ IsHttpUrl(Trimmed(arg))))

\* What the code does: the brackets are stripped from both ends of the
\* input, however many and whether or not they match, before the test for
\* an IP literal.
C14_ValidBracketsStripped ==
    op = "is_valid_url_or_ip" =>
        /\ ~raised
        /\ ret = (/\ arg.isstr
                  /\ Trimmed(arg) # <<>>
                  /\ \/ IsIPAddress(StripChars(Trimmed(arg), Brackets))
                     \/ IsHttpUrl(Trimmed(arg)))
        /\ arg.isstr => ret = is_valid_url_or_ip(arg.s)

=============================================================================
